---- MODULE Spec2Model ----
(***************************************************************************)
(* The asynchronous stylization pipelines of diffused-rays:                *)
(* AsyncStylizer (stylizer.py) and AsyncTextureStylizer                    *)
(* (texture_manager.py).  One pipeline instance is modelled: the render    *)
(* thread calling start / stop / submit / get_result / get_latest, and the *)
(* worker threads running _process_loop.  Every queue operation is one     *)
(* step (queue.Queue serialises them under its mutex); everything between  *)
(* two queue operations of one thread can interleave with the other        *)
(* threads.                                                                *)
(***************************************************************************)
EXTENDS Integers, Sequences, FiniteSets, TLC

\* ---------------------------------------------------------------- bounds
\* Number of submit calls explored on the instance.
MaxSubmits == 3
\* Number of worker threads start() may create on the instance.
MaxStarts == 2

\* ------------------------------------------------------- program constants
\* Queue(maxsize=1): capacity of input_queue and output_queue.
QueueMaxSize == 1
\* input_queue.get(timeout=0.1), in tenths of a second.
GetTimeout == 1
\* thread.join(timeout=1.0), in tenths of a second.
JoinShorterThanWait == GetTimeout - 1
JoinTimeout == 10

\* Python's None, for a frame, a result or a thread handle.
None == 0
\* The fallback frame the caller hands to get_latest: a value that is no
\* result of the worker.
Fallback == MaxSubmits + 1

Workers == 1..MaxStarts
Kinds == {"frame", "texture"}

VARIABLES
    kind,              \* "frame": AsyncStylizer, "texture": AsyncTextureStylizer
    pipe,              \* stylizer._pipe: "none" (None) or "cached" (a handle)
    input_queue,       \* Queue(maxsize=1) of submissions (identified by number)
    output_queue,      \* Queue(maxsize=1) of results (the number of their submission)
    running,           \* self.running
    thread,            \* self.thread: None or the worker thread created last
    last_output,       \* AsyncStylizer.last_output
    frames_processed,  \* self.frames_processed
    wpc,               \* position of each worker thread in _process_loop
    wframe,            \* the submission a worker has taken (local frame, prompt)
    wtmp,              \* the value a worker loaded for frames_processed += 1
    rpc,               \* position of the render thread inside submit / stop
    rframe,            \* the submission the render thread is installing
    submits,           \* number of submit calls made so far
    nthreads,          \* number of worker threads created so far
    waited,            \* input-wait timeouts of the joined worker during the join
    \* The history of the run, read by the properties only.  watch names the
    \* part of the history a specification records; the rest stays as in Init.
    watch,
    fresh,             \* "results": a result was installed since the previous get_result
    installed,         \* "results": the result installed last in output_queue
    fetched,           \* "results": the result get_result took last from output_queue
    ret,               \* "results": the last get_result / get_latest call
    failed,            \* "errors": the submissions whose transformation raised
    lateTakes,         \* "shutdown": per worker, submissions taken while running was False
    lateWaits,         \* "shutdown": per worker, input waits timed out while running was False
    quiet,             \* "shutdown": what happened since the last start()
    \* The game loop of main.py and the objects it owns.
    main,              \* the locals of main(): mode flags, handles, position in the loop
    pipes,             \* main's two pipeline objects: queues, last_output, worker
    tm,                \* the TextureManager: base_atlas and textures
    \* The raycaster.
    game_map,          \* the Map object in use, by name (see Grid)
    player,            \* the Player: x, y, angle
    ray                \* the locals of cast_rays for one column

vars == <<kind, pipe, input_queue, output_queue, running, thread, last_output,
          frames_processed, wpc, wframe, wtmp, rpc, rframe, submits, nthreads,
          waited, watch, fresh, installed, fetched, ret, failed, lateTakes,
          lateWaits, quiet, main, pipes, tm, game_map, player, ray>>

pipeline == <<kind, pipe, input_queue, output_queue, running, thread,
              last_output, frames_processed>>
workers == <<wpc, wframe, wtmp>>
render == <<rpc, rframe>>
counters == <<submits, nthreads, waited>>
results == <<fresh, installed, fetched, ret>>
shutdown == <<lateTakes, lateWaits, quiet>>
history == <<watch, results, failed, shutdown>>
\* What the game loop owns; the actions of one pipeline instance leave it alone.
game == <<main, pipes, tm, game_map, player, ray>>
\* The state of the raycaster.
caster == <<game_map, player, ray>>
\* The pipeline instance of the specifications above the game loop.
vars_pipeline == <<pipeline, workers, render, counters, history>>

\* The value a history variable takes: new when the specification records
\* the part h of the history, else the old value.
Record(h, new, old) == IF watch = h THEN new ELSE old

\* ------------------------------------------------------------ queue.Queue
\* Queue.full() / Queue.empty()
Full(q) == Len(q) >= QueueMaxSize
Empty(q) == Len(q) = 0

\* Queue.get_nowait(): the queue after the call (Empty is swallowed by the
\* callers' "except Empty: pass").
GetNowait(q) == IF Empty(q) THEN q ELSE Tail(q)

\* Queue.put_nowait(x) inside "try: ... except: pass": the item is added
\* when there is room and silently dropped on queue.Full.
PutNowait(q, x) == IF Full(q) THEN q ELSE Append(q, x)

\* The item a queue of capacity 1 holds, None when it is empty.
Slot(q) == IF Empty(q) THEN None ELSE Head(q)

\* ------------------------------------------------------------------ Init
\* Number of submissions the game loop makes to its two pipelines.
MaxFrames == 3
\* The raw frame of the raycaster, which is no result of a worker.
RawFrame == MaxFrames + 1
\* The atlas create_base_atlas builds.
BaseAtlas == MaxFrames + 2

\* The blend factor 1.0 and the step 0.1 of the blend keys, in hundredths.
BlendOne == 100
BlendStep == 10

\* The locals of main() when the loop is entered.  pc is the position in the
\* loop body; switched is history: the mode the last key handler switched
\* away from through its "Switching modes..." branch ("none" otherwise).
MainStart ==
    [sd_enabled |-> FALSE, async_stylizer |-> "none",
     texture_mode |-> FALSE, texture_manager |-> "none",
     texture_stylizer |-> "none", sd_blend |-> BlendOne,
     raw_frame |-> None, sd_frame |-> None, display_frame |-> None,
     pc |-> "events", submitted |-> 0, switched |-> "none"]

\* A pipeline object after __init__, with no worker thread.  worker is the
\* position of its thread in _process_loop, frame the submission it took.
NewPipe ==
    [input_queue |-> <<>>, output_queue |-> <<>>, last_output |-> None,
     worker |-> "none", frame |-> None]

\* TextureManager.__init__; also the value of tm while main has none.
\* sampled is the last texel read by sample: none yet.
NoSample == [wall_type |-> 0, tx |-> 0, ty |-> 0, rgb |-> <<0, 0, 0>>]
NoTextureManager ==
    [base_atlas |-> None, textures |-> None, sampled |-> NoSample]

\* maps/test_map.py: MAP, rows from y = 0.
TestMap ==
    << <<1, 1, 1, 1, 1, 1, 1, 1, 1, 1>>,
       <<1, 0, 0, 0, 0, 0, 0, 0, 0, 1>>,
       <<1, 0, 2, 2, 0, 3, 3, 0, 0, 1>>,
       <<1, 0, 2, 0, 0, 0, 3, 0, 0, 1>>,
       <<1, 0, 0, 0, 0, 0, 0, 0, 0, 1>>,
       <<1, 0, 0, 0, 0, 0, 0, 0, 0, 1>>,
       <<1, 0, 2, 0, 0, 0, 3, 0, 0, 1>>,
       <<1, 0, 2, 2, 0, 3, 3, 0, 0, 1>>,
       <<1, 0, 0, 0, 0, 0, 0, 0, 0, 1>>,
       <<1, 1, 1, 1, 1, 1, 1, 1, 1, 1>> >>

\* Positions are counted in units of 1 / PosDen of a cell.
PosDen == 2
\* Player(PLAYER_START_X, PLAYER_START_Y, PLAYER_START_ANGLE): (5.0, 5.0, 0.0)
PlayerStart == [x |-> 5 * PosDen, y |-> 5 * PosDen, angle |-> 0]

\* Before cast_rays: no ray.
NoRay == [pc |-> "none"]

NoCall == [op |-> "none", val |-> None, new |-> FALSE, inst |-> None,
           hit |-> FALSE]

InitInstance(h) ==
    /\ kind \in Kinds
    /\ pipe = "none"
    /\ input_queue = <<>>
    /\ output_queue = <<>>
    /\ running = FALSE
    /\ thread = None
    /\ last_output = None
    /\ frames_processed = 0
    /\ wpc = [w \in Workers |-> "unborn"]
    /\ wframe = [w \in Workers |-> None]
    /\ wtmp = [w \in Workers |-> 0]
    /\ rpc = "idle"
    /\ rframe = None
    /\ submits = 0
    /\ nthreads = 0
    /\ waited = 0
    /\ watch = h
    /\ fresh = FALSE
    /\ installed = None
    /\ fetched = None
    /\ ret = NoCall
    /\ failed = {}
    /\ lateTakes = [w \in Workers |-> 0]
    /\ lateWaits = [w \in Workers |-> 0]
    /\ quiet = "no"

\* main() before its loop: no pipeline object, the test map, the player at
\* the start position, no ray cast.
InitMain ==
    /\ main = MainStart
    /\ pipes = [k \in Kinds |-> NewPipe]
    /\ tm = NoTextureManager

InitCaster ==
    /\ game_map = "test"
    /\ player = PlayerStart
    /\ ray = NoRay

\* A pipeline object on its own: no game loop, texture manager, map or
\* player has been constructed around it.
InitAlone ==
    /\ main = None
    /\ pipes = None
    /\ tm = None
    /\ game_map = None
    /\ player = None
    /\ ray = None

InitWatching(h) == InitInstance(h) /\ InitAlone

Init == InitWatching("none")

\* -------------------------------------------------- render thread: submit
\* submit_frame / submit without its get_nowait: the pending submission is
\* not evicted.
SubmitKeepsPending ==
    /\ rpc = "idle"
    /\ submits < MaxSubmits
    /\ submits' = submits + 1
    /\ rframe' = submits + 1
    /\ rpc' = "submit_put"
    /\ quiet' = Record("shutdown", "no", quiet)
    /\ UNCHANGED <<game, pipeline, workers, nthreads, waited, watch, results,
                   failed, lateTakes, lateWaits>>

\* submit_frame / submit, first half: get_nowait evicts a pending submission.
SubmitEvict ==
    /\ rpc = "idle"
    /\ submits < MaxSubmits
    /\ submits' = submits + 1
    /\ rframe' = submits + 1
    /\ input_queue' = GetNowait(input_queue)
    /\ rpc' = "submit_put"
    /\ quiet' = Record("shutdown", "no", quiet)
    /\ UNCHANGED <<game, kind, pipe, output_queue, running, thread, last_output,
                   frames_processed, workers, nthreads, waited, watch,
                   results, failed, lateTakes, lateWaits>>

\* submit_frame / submit, second half: put_nowait of the new submission.
SubmitPut ==
    /\ rpc = "submit_put"
    /\ input_queue' = PutNowait(input_queue, rframe)
    /\ rpc' = "idle"
    /\ rframe' = None
    /\ UNCHANGED <<game, kind, pipe, output_queue, running, thread, last_output,
                   frames_processed, workers, counters, history>>

\* ------------------------------------ render thread: get_result, get_latest
\* AsyncStylizer.get_result on Empty without last_output: None.
ResultForgetsLast(q, last) == Slot(q)

\* What get_result returns.  AsyncStylizer stores the result taken in
\* last_output and returns last_output; AsyncTextureStylizer returns the
\* result taken, or None on Empty.
ResultOf(q, last) ==
    IF Empty(q) THEN (IF kind = "frame" THEN last ELSE None) ELSE Head(q)

\* self.last_output after get_result.
LastOutputAfter(q, last) ==
    IF kind = "frame" /\ ~Empty(q) THEN Head(q) ELSE last

\* The call as the history records it: its name and return value, and what
\* held when it was made: whether a result had been installed since the
\* previous call (new), which result was installed last (inst), and whether
\* the output slot held a result (hit).
Call(op, val) ==
    [op |-> op, val |-> val, new |-> fresh, inst |-> installed,
     hit |-> ~Empty(output_queue)]

\* get_result() with a blocking output_queue.get().
GetResultBlocking ==
    /\ rpc = "idle"
    /\ ~Empty(output_queue)
    /\ last_output' = LastOutputAfter(output_queue, last_output)
    /\ output_queue' = GetNowait(output_queue)
    /\ UNCHANGED <<game, kind, pipe, input_queue, running, thread, frames_processed,
                   workers, render, counters, history>>

\* get_result(): output_queue.get_nowait(), never waiting.
GetResult ==
    /\ rpc = "idle"
    /\ last_output' = LastOutputAfter(output_queue, last_output)
    /\ output_queue' = GetNowait(output_queue)
    /\ ret' = Record("results",
                     Call("get_result", ResultOf(output_queue, last_output)),
                     ret)
    /\ fetched' = Record("results",
                         IF Empty(output_queue) THEN fetched
                         ELSE Head(output_queue), fetched)
    /\ fresh' = Record("results", FALSE, fresh)
    /\ UNCHANGED <<game, kind, pipe, input_queue, running, thread, frames_processed,
                   workers, render, counters, watch, installed, failed,
                   shutdown>>

\* get_latest that hands back the fallback whenever get_result took nothing
\* from the queue.
FallbackUnlessTaken(result) ==
    IF ~Empty(output_queue) THEN result ELSE Fallback

\* What get_latest hands back for the result of get_result.
OrFallback(result) == IF result # None THEN result ELSE Fallback

\* AsyncStylizer.get_latest(fallback): get_result(), or the fallback.
GetLatest ==
    /\ rpc = "idle"
    /\ kind = "frame"
    /\ last_output' = LastOutputAfter(output_queue, last_output)
    /\ output_queue' = GetNowait(output_queue)
    /\ ret' = Record("results",
                     Call("get_latest",
                          OrFallback(ResultOf(output_queue, last_output))),
                     ret)
    /\ fetched' = Record("results",
                         IF Empty(output_queue) THEN fetched
                         ELSE Head(output_queue), fetched)
    /\ fresh' = Record("results", FALSE, fresh)
    /\ UNCHANGED <<game, kind, pipe, input_queue, running, thread, frames_processed,
                   workers, render, counters, watch, installed, failed,
                   shutdown>>

\* --------------------------------------------------- render thread: start
\* load_pipeline(): the outcomes of the one-time load, as the value left in
\* the module-level _pipe ("none": None, "cached": a handle) and whether the
\* call raised.  A cached handle is returned at once.  Otherwise the load
\* may raise before _pipe is assigned (get_device, from_pretrained), or
\* after it was assigned and before the handle is on the device and
\* configured (_pipe.to, set_progress_bar_config).
LoadOutcomes(p) ==
    IF p # "none"
    THEN {[pipe |-> p, raised |-> FALSE]}
    ELSE {[pipe |-> "none", raised |-> TRUE],
          [pipe |-> "cached", raised |-> TRUE],
          [pipe |-> "cached", raised |-> FALSE]}

\* start(): returns at once while running; else loads the pipeline (an
\* exception of the load leaves the instance as it was) and launches a
\* worker thread.
Start ==
    /\ rpc = "idle"
    /\ IF running
       THEN UNCHANGED <<pipe, running, thread, wpc, nthreads, shutdown>>
       ELSE \E o \in LoadOutcomes(pipe) :
            /\ pipe' = o.pipe
            /\ IF o.raised
               THEN UNCHANGED <<running, thread, wpc, nthreads, shutdown>>
               ELSE /\ nthreads < MaxStarts
                    /\ running' = TRUE
                    /\ nthreads' = nthreads + 1
                    /\ thread' = nthreads + 1
                    /\ wpc' = [wpc EXCEPT ![nthreads + 1] = "test"]
                    /\ lateTakes' = [w \in Workers |-> 0]
                    /\ lateWaits' = [w \in Workers |-> 0]
                    /\ quiet' = Record("shutdown",
                                       IF Empty(input_queue) THEN "clean"
                                       ELSE "pending", quiet)
    /\ UNCHANGED <<game, kind, input_queue, output_queue, last_output,
                   frames_processed, wframe, wtmp, render, submits, waited,
                   watch, results, failed>>

\* ---------------------------------------------------- render thread: stop
\* stop(): self.running = False; without a thread handle that is all.
StopSignal ==
    /\ rpc = "idle"
    /\ running' = FALSE
    /\ rpc' = IF thread = None THEN "idle" ELSE "stop_get"
    /\ UNCHANGED <<game, kind, pipe, input_queue, output_queue, thread, last_output,
                   frames_processed, workers, rframe, counters, history>>

\* stop(): input_queue.get_nowait() "to unblock thread".
StopEvict ==
    /\ rpc = "stop_get"
    /\ input_queue' = GetNowait(input_queue)
    /\ rpc' = "stop_join"
    /\ waited' = 0
    /\ UNCHANGED <<game, kind, pipe, output_queue, running, thread, last_output,
                   frames_processed, workers, rframe, submits, nthreads,
                   history>>

\* A worker in a call that can outlast the join timeout: the external
\* transformation (seconds), or a put on a full output_queue.
InLongCall(w) ==
    \/ wpc[w] = "stylize"
    \/ wpc[w] = "put" /\ Full(output_queue)

\* What the history keeps of a stop() that returns.
Stopped(q) ==
    CASE q = "clean" -> "clean_stopped"
      [] q = "pending" -> "pending_stopped"
      [] OTHER -> "no"

\* thread.join(timeout=1.0) ends because the thread has terminated;
\* self.thread = None.
StopJoin ==
    /\ rpc = "stop_join"
    /\ wpc[thread] = "done"
    /\ thread' = None
    /\ rpc' = "idle"
    /\ quiet' = Record("shutdown", Stopped(quiet), quiet)
    /\ waited' = 0
    /\ UNCHANGED <<game, kind, pipe, input_queue, output_queue, running, last_output,
                   frames_processed, workers, rframe, submits, nthreads,
                   watch, results, failed, lateTakes, lateWaits>>

\* thread.join(timeout=1.0) ends by its timeout: the thread is still alive
\* after JoinTimeout, being in a long call or having spent the time in
\* input waits of GetTimeout each; self.thread = None.
StopJoinTimeout ==
    /\ rpc = "stop_join"
    /\ wpc[thread] # "done"
    /\ InLongCall(thread) \/ waited * GetTimeout >= JoinTimeout
    /\ thread' = None
    /\ rpc' = "idle"
    /\ quiet' = Record("shutdown", Stopped(quiet), quiet)
    /\ waited' = 0
    /\ UNCHANGED <<game, kind, pipe, input_queue, output_queue, running, last_output,
                   frames_processed, workers, rframe, submits, nthreads,
                   watch, results, failed, lateTakes, lateWaits>>

\* ------------------------------------------- worker thread: _process_loop
\* A loop test that does not read self.running.
LoopForever(r) == "wait"

\* "while self.running": where the loop test leads.
LoopTarget(r) == IF r THEN "wait" ELSE "done"

\* "while self.running": the loop test.
LoopTest(w) ==
    /\ wpc[w] = "test"
    /\ wpc' = [wpc EXCEPT ![w] = LoopTarget(running)]
    /\ UNCHANGED <<game, pipeline, wframe, wtmp, render, counters, history>>

\* input_queue.get(timeout=0.1) returns a submission.
Take(w) ==
    /\ wpc[w] = "wait"
    /\ ~Empty(input_queue)
    /\ wframe' = [wframe EXCEPT ![w] = Head(input_queue)]
    /\ input_queue' = Tail(input_queue)
    /\ wpc' = [wpc EXCEPT ![w] = "stylize"]
    /\ lateTakes' = Record("shutdown",
                           [lateTakes EXCEPT ![w] = IF running THEN @ ELSE @ + 1],
                           lateTakes)
    /\ UNCHANGED <<game, kind, pipe, output_queue, running, thread, last_output,
                   frames_processed, wtmp, render, counters, watch, results,
                   failed, lateWaits, quiet>>

\* input_queue.get(timeout=0.1) raises Empty after the timeout: continue.
WaitTimeout(w) ==
    /\ wpc[w] = "wait"
    /\ Empty(input_queue)
    /\ wpc' = [wpc EXCEPT ![w] = "test"]
    /\ waited' = IF rpc = "stop_join" /\ thread = w THEN waited + 1 ELSE waited
    /\ lateWaits' = Record("shutdown",
                           [lateWaits EXCEPT ![w] = IF running THEN @ ELSE @ + 1],
                           lateWaits)
    /\ UNCHANGED <<game, pipeline, wframe, wtmp, render, submits, nthreads, watch,
                   results, failed, lateTakes, quiet>>

\* The ways stylize_frame(frame, prompt) can end in the worker: a result,
\* an exception, and for the texture pipeline a result that fails the
\* "styled is None or (styled == 0).all()" validation.
StylizeOutcomes ==
    {"ok", "raise"} \cup (IF kind = "texture" THEN {"black"} ELSE {})

\* A worker whose exception is not caught: the thread ends.
UncaughtStylize(outcome) ==
    CASE outcome = "ok" -> "evict"
      [] outcome = "raise" -> "done"
      [] OTHER -> "test"

\* Where the worker goes after the transformation: on to installing the
\* result, or back to the loop test ("except Exception", "continue").
AfterStylize(outcome) == IF outcome = "ok" THEN "evict" ELSE "test"

\* output = stylize_frame(frame, prompt=prompt), with its try / except.
Stylize(w) ==
    /\ wpc[w] = "stylize"
    /\ \E outcome \in StylizeOutcomes :
        /\ wpc' = [wpc EXCEPT ![w] = AfterStylize(outcome)]
        /\ wframe' = IF outcome = "ok" THEN wframe
                     ELSE [wframe EXCEPT ![w] = None]
        /\ failed' = Record("errors",
                            IF outcome = "raise" THEN failed \cup {wframe[w]}
                            ELSE failed, failed)
    /\ UNCHANGED <<game, pipeline, wtmp, render, counters, watch, results, shutdown>>

\* output_queue.get_nowait(): "replace old if exists".
Evict(w) ==
    /\ wpc[w] = "evict"
    /\ output_queue' = GetNowait(output_queue)
    /\ wpc' = [wpc EXCEPT ![w] = "put"]
    /\ UNCHANGED <<game, kind, pipe, input_queue, running, thread, last_output,
                   frames_processed, wframe, wtmp, render, counters, history>>

\* output_queue.put(output): a blocking put, waiting while the queue is full.
Put(w) ==
    /\ wpc[w] = "put"
    /\ ~Full(output_queue)
    /\ output_queue' = Append(output_queue, wframe[w])
    /\ wframe' = [wframe EXCEPT ![w] = None]
    /\ wpc' = [wpc EXCEPT ![w] = "load"]
    /\ installed' = Record("results", wframe[w], installed)
    /\ fresh' = Record("results", TRUE, fresh)
    /\ UNCHANGED <<game, kind, pipe, input_queue, running, thread, last_output,
                   frames_processed, wtmp, render, counters, watch, fetched,
                   ret, failed, shutdown>>

\* self.frames_processed += 1, the load of the attribute.
IncLoad(w) ==
    /\ wpc[w] = "load"
    /\ wtmp' = [wtmp EXCEPT ![w] = frames_processed]
    /\ wpc' = [wpc EXCEPT ![w] = "store"]
    /\ UNCHANGED <<game, pipeline, wframe, render, counters, history>>

\* self.frames_processed += 1, the store of the incremented value.
IncStore(w) ==
    /\ wpc[w] = "store"
    /\ frames_processed' = wtmp[w] + 1
    /\ wtmp' = [wtmp EXCEPT ![w] = 0]
    /\ wpc' = [wpc EXCEPT ![w] = "test"]
    /\ UNCHANGED <<game, kind, pipe, input_queue, output_queue, running, thread,
                   last_output, wframe, render, counters, history>>

\* ------------------------------------------------------- specifications
WorkerStep(w) ==
    \/ LoopTest(w)
    \/ Take(w)
    \/ WaitTimeout(w)
    \/ Stylize(w)
    \/ Evict(w)
    \/ Put(w)
    \/ IncLoad(w)
    \/ IncStore(w)

RenderStep ==
    \/ SubmitEvict
    \/ SubmitPut
    \/ GetResult
    \/ GetLatest
    \/ Start
    \/ StopSignal
    \/ StopEvict
    \/ StopJoin
    \/ StopJoinTimeout

Next == RenderStep \/ \E w \in Workers : WorkerStep(w)

\* The pipeline alone.
Spec == Init /\ [][Next]_vars

\* The pipeline, recording the results installed and the get_result calls.
SpecResults == InitWatching("results") /\ [][Next]_vars

\* The pipeline, recording the submissions whose transformation raised.
SpecErrors == InitWatching("errors") /\ [][Next]_vars

\* The pipeline, recording what workers do after running is set False.
SpecShutdown == InitWatching("shutdown") /\ [][Next]_vars

\* ----------------------------------------------------------------- claims
Alive(w) == wpc[w] \notin {"unborn", "done"}
LiveWorkers == {w \in Workers : Alive(w)}

\* C1: submit / submit_frame and get_result (and get_latest on it) never
\* wait on the worker: whenever the render thread is about to call one of
\* them, or is inside submit between its two queue operations, its next
\* step can be taken at once, whatever the queues hold and whatever the
\* workers are doing.
C1_CallsNeverBlock ==
    /\ rpc = "idle" =>
        /\ ENABLED GetResult
        /\ kind = "frame" => ENABLED GetLatest
        /\ submits < MaxSubmits => ENABLED SubmitEvict
    /\ rpc = "submit_put" => ENABLED SubmitPut

\* C1 witness: the render thread is inside submit while the output slot is
\* full and a worker is in the middle of a transformation.
C1_Witness ==
    /\ rpc = "submit_put"
    /\ Full(output_queue)
    /\ \E w \in Workers : wpc[w] = "stylize"

\* C2: frames_processed is 0 while start() was never called, it never
\* decreases, and it never exceeds the number of submit calls.
C2_FramesProcessed ==
    /\ [](nthreads = 0 => frames_processed = 0)
    /\ [](frames_processed <= submits)
    /\ [][frames_processed' >= frames_processed]_vars

\* C3: the input slot holds at most one submission, and a pending submission
\* is always the one submitted last: an older one never survives a newer
\* submit, and while submit is between its eviction and its put the slot is
\* empty.
C3_FreshestPending ==
    /\ Len(input_queue) <= 1
    /\ rpc = "submit_put" => Empty(input_queue)
    /\ ~Empty(input_queue) => Head(input_queue) = submits

\* C3 witness: a submit has returned after replacing a submission no worker
\* could have taken.
C3_Witness ==
    /\ nthreads = 0
    /\ submits >= 2
    /\ rpc = "idle"
    /\ input_queue = <<submits>>

\* C7: a start() whose load fails leaves the instance stopped and untouched,
\* and leaves nothing cached, so that the next start() loads again.
C7_FailedStartRetries ==
    [][(Start /\ ~running /\ nthreads' = nthreads) =>
        /\ running' = FALSE
        /\ thread' = None
        /\ UNCHANGED <<input_queue, output_queue, frames_processed, wpc>>
        /\ pipe' = "none"]_vars

\* C8: at most one thread executes the instance's worker loop.
C8_SingleWorker == Cardinality(LiveWorkers) <= 1

C5_FallbackUntilInstalled ==
    ret.op = "get_latest" =>
        /\ ret.val = Fallback <=> ret.inst = None
        /\ ret.inst # None => ret.val = fetched

\* C5 amended: get_latest returns the fallback exactly when no result has
\* been fetched from the output slot so far, this call included; once a
\* result has been fetched every get_latest returns the result fetched last
\* and never the fallback.
C5_FallbackUntilFetched ==
    /\ [](ret.op = "get_latest" =>
            /\ ret.val = Fallback <=> fetched = None
            /\ ret.val # Fallback => ret.val = fetched
            /\ ret.hit => ret.val = ret.inst)
    /\ [][fetched # None => fetched' # None]_vars

\* C5 witness: get_latest called with nothing in the slot has handed back
\* the result fetched by an earlier call.
C5_Witness ==
    /\ ret.op = "get_latest"
    /\ ~ret.hit
    /\ ret.val = fetched
    /\ fetched # None

\* C6: a transformation that raises does not end the worker.  The step in
\* which it raises changes neither frames_processed nor the output slot nor
\* running and leaves the worker at its loop test; the submission is
\* discarded (it is never installed, returned or counted); and while the
\* pipeline is running its worker thread is alive, so that it takes the
\* submissions made afterwards.
C6_ErrorKeepsWorker ==
    /\ [](\A f \in failed :
            /\ Slot(output_queue) # f
            /\ last_output # f
            /\ \A w \in Workers : wframe[w] # f)
    /\ [](frames_processed + Cardinality(failed) <= submits)
    /\ []((running /\ thread # None) => Alive(thread))
    /\ [][failed' # failed =>
            /\ UNCHANGED <<frames_processed, output_queue, running>>
            /\ \A w \in Workers : wpc'[w] # wpc[w] => wpc'[w] = "test"]_vars

\* C6 witness: a transformation raised, and the same worker has since
\* taken, transformed and installed a later submission.
C6_Witness ==
    /\ nthreads = 1
    /\ running
    /\ failed # {}
    /\ \E f \in failed : Slot(output_queue) > f
    /\ frames_processed >= 1

\* C9 as claimed: a stop() that follows a start() with no submit call in
\* between leaves running False, the thread handle cleared and no worker
\* thread alive.
C9_StopAfterStart ==
    quiet \in {"clean_stopped", "pending_stopped"} =>
        /\ running = FALSE
        /\ thread = None
        /\ LiveWorkers = {}

\* C9 amended: a stop() that follows a start() with no submit call in
\* between, the input slot having been empty when start() was called, leaves
\* running False and the thread handle cleared, and the worker thread that
\* start() created has left its loop and terminated.
C9_StopAfterCleanStart ==
    quiet = "clean_stopped" =>
        /\ running = FALSE
        /\ thread = None
        /\ wpc[nthreads] = "done"

\* C9 witness: such a stop() has returned.
C9_Witness == quiet = "clean_stopped" /\ rpc = "idle"

\* stop() does not wait for a transformation in flight: while it joins a
\* worker that is inside stylize_frame, the join can end by its timeout.
StopReturnsMidTransformation ==
    (rpc = "stop_join" /\ wpc[thread] = "stylize") => ENABLED StopJoinTimeout

\* A worker at its loop test with running False leaves the loop.
ExitsAtLoopTest ==
    \A w \in Workers :
        (wpc[w] = "test" /\ ~running /\ wpc'[w] # wpc[w]) => wpc'[w] = "done"

\* C10 as claimed: stop() returns while the worker is mid-transformation,
\* and once running is False (no start() following) a worker takes no
\* submission and leaves its loop at its next loop test, after at most one
\* input-wait timeout.
C10_NoTakeAfterStop ==
    /\ []StopReturnsMidTransformation
    /\ [](\A w \in Workers : lateTakes[w] = 0 /\ lateWaits[w] <= 1)
    /\ [][ExitsAtLoopTest]_vars

\* C10 amended: stop() returns while the worker is mid-transformation, and
\* once running is False (no start() following) a worker leaves its loop at
\* its next loop test, before which it ends at most one input wait: by its
\* timeout, or by taking one more submission, which it transforms first.
C10_AtMostOneWaitAfterStop ==
    /\ []StopReturnsMidTransformation
    /\ [](\A w \in Workers : lateTakes[w] + lateWaits[w] <= 1)
    /\ [][ExitsAtLoopTest]_vars

\* C10 witness: stop() has returned, its join timed out, while the worker is
\* still inside the transformation.
C10_Witness ==
    /\ rpc = "idle"
    /\ ~running
    /\ thread = None
    /\ \E w \in Workers : wpc[w] = "stylize" /\ lateTakes[w] = 0

\* ======================================================= the game loop
\* main(): the render thread runs the loop body (key events, texture update,
\* raycast, stylized view); each of main's two pipeline objects has at most
\* one worker thread, since main calls start() once per object.  The mode
\* "frame" is the stylized view (sd_enabled, async_stylizer), the mode
\* "texture" is texture mode (texture_mode, texture_stylizer).

\* What start() of a pipeline does inside the handler's try block: the
\* import raises, start() raises after the objects were assigned, or the
\* worker thread is launched.
InitOutcomes == {"import_raises", "start_raises", "ok"}

\* time.sleep(1.0) has elapsed: within that second a worker that is not
\* inside the transformation has finished its queue operations and has
\* taken a pending submission (its input wait is 0.1 s); a transformation
\* may last longer.
SleepOver ==
    \A k \in Kinds :
        \/ pipes[k].worker \in {"none", "stylize"}
        \/ pipes[k].worker = "wait" /\ Empty(pipes[k].input_queue)

\* The other mode's flag when a key handler turns its own mode on.
LeftOn(flag) == flag
OtherModeOff(flag) == FALSE

\* The handle of a pipeline after the try block.
HandleAfter(outcome) == IF outcome = "import_raises" THEN "none" ELSE "created"

\* The pipelines after start(): a launched worker waits on its input queue.
Launch(k, outcome) ==
    IF outcome = "ok" THEN [pipes EXCEPT ![k].worker = "wait"] ELSE pipes

\* K_SPACE: toggle the stylized view.
KeySpace ==
    /\ main.pc = "events"
    /\ IF main.sd_enabled
       THEN /\ main' = [main EXCEPT !.sd_enabled = FALSE,
                                    !.switched = "none"]
            /\ UNCHANGED pipes
       ELSE /\ main.texture_mode => SleepOver
            /\ IF main.async_stylizer = "none"
               THEN \E outcome \in InitOutcomes :
                    /\ main' = [main EXCEPT
                           !.texture_mode = OtherModeOff(@),
                           !.async_stylizer = HandleAfter(outcome),
                           !.sd_enabled = (outcome = "ok"),
                           !.switched = IF main.texture_mode /\ outcome = "ok"
                                        THEN "texture" ELSE "none"]
                    /\ pipes' = Launch("frame", outcome)
               ELSE /\ main' = [main EXCEPT
                           !.texture_mode = OtherModeOff(@),
                           !.sd_enabled = TRUE,
                           !.switched = IF main.texture_mode
                                        THEN "texture" ELSE "none"]
                    /\ UNCHANGED pipes
    /\ UNCHANGED <<vars_pipeline, caster, tm>>

\* K_t: toggle texture mode.
KeyT ==
    /\ main.pc = "events"
    /\ IF main.texture_mode
       THEN /\ main' = [main EXCEPT !.texture_mode = FALSE,
                                    !.switched = "none"]
            /\ UNCHANGED pipes
       ELSE /\ main.sd_enabled => SleepOver
            /\ IF main.texture_manager = "none"
               THEN \E outcome \in InitOutcomes :
                    /\ main' = [main EXCEPT
                           !.sd_enabled = OtherModeOff(@),
                           !.texture_manager = HandleAfter(outcome),
                           !.texture_stylizer = HandleAfter(outcome),
                           !.texture_mode = (outcome = "ok"),
                           !.switched = IF main.sd_enabled /\ outcome = "ok"
                                        THEN "frame" ELSE "none"]
                    /\ pipes' = Launch("texture", outcome)
               ELSE /\ main' = [main EXCEPT
                           !.sd_enabled = OtherModeOff(@),
                           !.texture_mode = TRUE,
                           !.switched = IF main.sd_enabled
                                        THEN "frame" ELSE "none"]
                    /\ UNCHANGED pipes
    /\ UNCHANGED <<vars_pipeline, caster, tm>>

\* The end of the event loop and the movement keys: the loop body goes on
\* to the texture update.
Movement ==
    /\ main.pc = "events"
    /\ main' = [main EXCEPT !.pc = "texture", !.switched = "none"]
    /\ UNCHANGED <<vars_pipeline, caster, pipes, tm>>

\* submit_frame / submit of a pipeline of main: get_nowait, then put_nowait.
\* With one worker, which only takes from the input queue, the put finds
\* the slot free whether or not the worker ran between the two.
Submitted(q, n) == PutNowait(GetNowait(q), n)

\* get_result of a pipeline of main: the value returned, and the object
\* after the call (only AsyncStylizer keeps last_output).
Returned(k) ==
    IF ~Empty(pipes[k].output_queue) THEN Head(pipes[k].output_queue)
    ELSE IF k = "frame" THEN pipes[k].last_output ELSE None
Fetched(k) ==
    [pipes EXCEPT ![k].output_queue = GetNowait(@),
                  ![k].last_output = IF k = "frame" THEN Returned(k) ELSE @]

\* Texture mode update, first half: the throttled submission of the base
\* atlas, created on first use.  The throttle lets a frame pass without a
\* submission.
TextureSubmit ==
    /\ main.pc = "texture"
    /\ IF main.texture_mode /\ main.texture_stylizer # "none"
       THEN \/ /\ main' = [main EXCEPT !.pc = "texture_result"]
               /\ UNCHANGED <<pipes, tm>>
            \/ /\ main.submitted < MaxFrames
               /\ main' = [main EXCEPT !.pc = "texture_result",
                                       !.submitted = @ + 1]
               /\ tm' = [tm EXCEPT !.base_atlas = BaseAtlas]
               /\ pipes' = [pipes EXCEPT !["texture"].input_queue =
                                Submitted(@, main.submitted + 1)]
       ELSE /\ main' = [main EXCEPT !.pc = "sd"]
            /\ UNCHANGED <<pipes, tm>>
    /\ UNCHANGED <<vars_pipeline, caster>>

\* The textures after split_atlas of a fetched atlas; unchanged when
\* get_result returned None.
SplitAtlas(styled_atlas) ==
    IF styled_atlas # None THEN [tm EXCEPT !.textures = styled_atlas] ELSE tm

\* Texture mode update, second half: get_result and split_atlas.
TextureResult ==
    /\ main.pc = "texture_result"
    /\ tm' = SplitAtlas(Returned("texture"))
    /\ pipes' = Fetched("texture")
    /\ main' = [main EXCEPT !.pc = "sd"]
    /\ UNCHANGED <<vars_pipeline, caster>>

\* cast_rays, then the stylized view's submit_frame of the raw frame; in
\* the other modes the raw frame is displayed.
SdSubmit ==
    /\ main.pc = "sd"
    /\ IF main.sd_enabled /\ main.async_stylizer # "none"
          /\ ~main.texture_mode
       THEN /\ main.submitted < MaxFrames
            /\ main' = [main EXCEPT !.pc = "sd_latest", !.submitted = @ + 1]
            /\ pipes' = [pipes EXCEPT !["frame"].input_queue =
                             Submitted(@, main.submitted + 1)]
       ELSE /\ main' = [main EXCEPT !.pc = "events",
                                    !.display_frame = RawFrame]
            /\ UNCHANGED pipes
    /\ UNCHANGED <<vars_pipeline, caster, tm>>

\* get_latest(raw_frame) and the display of its result.
SdLatest ==
    /\ main.pc = "sd_latest"
    /\ main' = [main EXCEPT
           !.pc = "events",
           !.display_frame = IF Returned("frame") # None
                             THEN Returned("frame") ELSE RawFrame]
    /\ pipes' = Fetched("frame")
    /\ UNCHANGED <<vars_pipeline, caster, tm>>

\* ------------------------------------------- the workers of main's pipelines
\* input_queue.get(timeout=0.1) taking a submission.
PipeTake(k) ==
    /\ pipes[k].worker = "wait"
    /\ ~Empty(pipes[k].input_queue)
    /\ pipes' = [pipes EXCEPT ![k].worker = "stylize",
                              ![k].frame = Head(pipes[k].input_queue),
                              ![k].input_queue = Tail(@)]
    /\ UNCHANGED <<vars_pipeline, caster, main, tm>>

\* The outcomes of the transformation in _process_loop of each class.
OutcomesOf(k) == {"ok", "raise"} \cup (IF k = "texture" THEN {"black"} ELSE {})

\* stylize_frame returns or raises.
PipeStylize(k) ==
    /\ pipes[k].worker = "stylize"
    /\ \E outcome \in OutcomesOf(k) :
        pipes' = [pipes EXCEPT
            ![k].worker = IF outcome = "ok" THEN "evict" ELSE "wait",
            ![k].frame = IF outcome = "ok" THEN @ ELSE None]
    /\ UNCHANGED <<vars_pipeline, caster, main, tm>>

\* output_queue.get_nowait() before the put.
PipeEvict(k) ==
    /\ pipes[k].worker = "evict"
    /\ pipes' = [pipes EXCEPT ![k].worker = "put",
                              ![k].output_queue = GetNowait(@)]
    /\ UNCHANGED <<vars_pipeline, caster, main, tm>>

\* A worker whose put also writes the result into the texture cache.
PipePutShared(k) ==
    /\ pipes[k].worker = "put"
    /\ ~Full(pipes[k].output_queue)
    /\ pipes' = [pipes EXCEPT ![k].worker = "wait",
                              ![k].frame = None,
                              ![k].output_queue = Append(@, pipes[k].frame)]
    /\ tm' = [tm EXCEPT !.textures = pipes[k].frame]
    /\ UNCHANGED <<vars_pipeline, caster, main>>

\* output_queue.put(output).
PipePut(k) ==
    /\ pipes[k].worker = "put"
    /\ ~Full(pipes[k].output_queue)
    /\ pipes' = [pipes EXCEPT ![k].worker = "wait",
                              ![k].frame = None,
                              ![k].output_queue = Append(@, pipes[k].frame)]
    /\ UNCHANGED <<vars_pipeline, caster, main, tm>>

PipeWorkerStep(k) ==
    \/ PipeTake(k)
    \/ PipeStylize(k)
    \/ PipeEvict(k)
    \/ PipePut(k)

MainStep ==
    \/ KeySpace
    \/ KeyT
    \/ Movement
    \/ TextureSubmit
    \/ TextureResult
    \/ SdSubmit
    \/ SdLatest

NextGame == MainStep \/ \E k \in Kinds : PipeWorkerStep(k)

\* The pipeline instance of the specifications above stays as constructed.
InitGame ==
    /\ InitInstance("game") /\ kind = "frame"
    /\ InitMain
    /\ InitCaster

\* The game loop with its two pipelines.
SpecGame == InitGame /\ [][NextGame]_vars

\* C11: the flags sd_enabled and texture_mode are never both true, after any
\* sequence of SPACE and T key events, whether or not the initialisation of
\* a mode fails; in particular not when the loop body starts rendering.
C11_ModesExclusive == ~(main.sd_enabled /\ main.texture_mode)

\* A frame is rendered in one mode after the other mode had been on.
C11_Witness ==
    /\ main.pc = "texture"
    /\ main.sd_enabled
    /\ main.texture_manager = "created"
    /\ pipes["texture"].worker # "none"

\* C12: when a key handler has switched from one mode to the other, the old
\* mode's worker is idle when the render loop resumes: it is inside no
\* transformation and no submission of the old mode is pending.
C12_OldWorkerIdleAfterSwitch ==
    main.switched # "none" =>
        /\ pipes[main.switched].worker \in {"none", "wait"}
        /\ Empty(pipes[main.switched].input_queue)

\* ============================================================ the blend
\* The blend keys and the composition of the displayed frame.  The blend
\* factor is a float: it is counted in hundredths, and the rounding of a
\* float addition or subtraction is any error of at most one hundredth.
\* A frame is one channel of one pixel (the composition is elementwise),
\* a uint8.
Pixels == {0, 100, 255}
Rounded(x) == {x - 1, x, x + 1}

Max(a, b) == IF a >= b THEN a ELSE b
Min(a, b) == IF a <= b THEN a ELSE b

\* K_MINUS without the clamp at 0.0.
DecreasedUnclamped(b) == {x : x \in Rounded(b - BlendStep)}

\* K_MINUS: sd_blend = max(0.0, sd_blend - 0.1)
Decreased(b) == {Max(0, x) : x \in Rounded(b - BlendStep)}

\* K_EQUALS: sd_blend = min(1.0, sd_blend + 0.1)
Increased(b) == {Min(BlendOne, x) : x \in Rounded(b + BlendStep)}

KeyMinus ==
    /\ main.pc = "events"
    /\ \E b \in Decreased(main.sd_blend) : main' = [main EXCEPT !.sd_blend = b]
    /\ UNCHANGED <<vars_pipeline, caster, pipes, tm>>

KeyEquals ==
    /\ main.pc = "events"
    /\ \E b \in Increased(main.sd_blend) : main' = [main EXCEPT !.sd_blend = b]
    /\ UNCHANGED <<vars_pipeline, caster, pipes, tm>>

\* display_frame for the blend factor b: the styled frame, the raw frame,
\* or their mix cut to a uint8 (astype truncates).
Composite(raw, styled, b) ==
    IF b >= BlendOne THEN styled
    ELSE IF b <= 0 THEN raw
    ELSE (raw * (BlendOne - b) + styled * b) \div BlendOne

\* One frame of the stylized view: a raw frame, the frame get_latest
\* returned for it (a styled frame, or the raw frame as the fallback), and
\* the composition that is displayed.
Compose ==
    /\ main.pc = "events"
    /\ \E raw \in Pixels, styled \in Pixels, latest \in BOOLEAN :
        main' = [main EXCEPT
            !.raw_frame = raw,
            !.sd_frame = IF latest THEN styled ELSE raw,
            !.display_frame =
                Composite(raw, IF latest THEN styled ELSE raw, main.sd_blend),
            !.pc = "flip"]
    /\ UNCHANGED <<vars_pipeline, caster, pipes, tm>>

\* pygame.display.flip(): the frame is shown, the loop body starts again.
Flip ==
    /\ main.pc = "flip"
    /\ main' = [main EXCEPT !.pc = "events"]
    /\ UNCHANGED <<vars_pipeline, caster, pipes, tm>>

NextBlend == KeyMinus \/ KeyEquals \/ Compose \/ Flip

\* The blend keys and the composition alone.
SpecBlend == InitGame /\ [][NextBlend]_vars

\* C13: the blend factor stays within [0, 1] after any sequence of '-' and
\* '=' presses; the composited frame is the raw frame when the factor is 0
\* and the styled frame when it is 1.
C13_BlendIdentity ==
    /\ main.sd_blend \in 0..BlendOne
    /\ main.pc = "flip" =>
        /\ main.sd_blend = 0 => main.display_frame = main.raw_frame
        /\ main.sd_blend = BlendOne => main.display_frame = main.sd_frame

\* A frame composed at factor 0 from a styled frame that differs from the
\* raw one, after the factor was brought down from 1.
C13_Witness ==
    /\ main.pc = "flip"
    /\ main.sd_blend = 0
    /\ main.sd_frame # main.raw_frame
    /\ main.display_frame = main.raw_frame

\* ========================================================= the raycaster
\* cast_rays for one column: the DDA loop over the grid and the
\* perpendicular distance.  Positions are multiples of 1 / PosDen; a ray
\* direction (cos, sin of the ray angle) is a unit vector dx / DirDen,
\* dy / DirDen.  A distance is a fraction n / d of integers with d >= 0:
\* d = 0 with n > 0 is float('inf'), n = d = 0 is nan, and d < 0 stands for
\* the ZeroDivisionError of a division by 0.
DirDen == 5
Directions ==
    {<<DirDen, 0>>, <<-DirDen, 0>>, <<0, DirDen>>, <<0, -DirDen>>}
    \cup {<<3 * a, 4 * b>> : a, b \in {-1, 1}}
    \cup {<<4 * a, 3 * b>> : a, b \in {-1, 1}}

\* Length of the corridor map.
CorridorLength == 27

\* Grids besides the test map: an open grid without any wall, and a long
\* corridor open at its ends, both left only through out-of-bounds cells.
OpenMap == [y \in 1..3 |-> [x \in 1..3 |-> 0]]
Corridor == [y \in 1..3 |-> [x \in 1..CorridorLength |->
                                  IF y = 2 THEN 0 ELSE 1]]
Maps == {"test", "open", "corridor"}

\* Map.grid of the Map object that game_map names.
Grid(m) ==
    CASE m = "test" -> TestMap
      [] m = "open" -> OpenMap
      [] OTHER -> Corridor

Height(grid) == Len(grid)
Width(grid) == IF Len(grid) > 0 THEN Len(grid[1]) ELSE 0

\* Map.get_cell that treats out-of-bounds cells as empty.
GetCellUnbounded(grid, x, y) ==
    IF 0 <= x /\ x < Width(grid) /\ 0 <= y /\ y < Height(grid)
    THEN grid[y + 1][x + 1] ELSE 0

\* Map.get_cell: the cell, 1 out of bounds.
GetCell(grid, x, y) ==
    IF 0 <= x /\ x < Width(grid) /\ 0 <= y /\ y < Height(grid)
    THEN grid[y + 1][x + 1] ELSE 1

\* The positions inside the empty cells of a grid.
EmptyPositions(grid) ==
    {pos \in (0..(Width(grid) * PosDen - 1)) \X (0..(Height(grid) * PosDen - 1)) :
        GetCell(grid, pos[1] \div PosDen, pos[2] \div PosDen) = 0}

Abs(x) == IF x < 0 THEN -x ELSE x
Infinity == [n |-> 1, d |-> 0]
ZeroDivision == [n |-> 0, d |-> -1]
\* config.MAX_DEPTH = 25.0 and the lower clamp 0.001
MaxDepth == [n |-> 25, d |-> 1]
MinDist == [n |-> 1, d |-> 1000]

\* a < b on distances; false when either is nan.
Less(a, b) == a.n * b.d < b.n * a.d
\* a + b
Plus(a, b) ==
    IF a.d = b.d THEN [n |-> a.n + b.n, d |-> a.d]
    ELSE IF b.d > 0 /\ a.d % b.d = 0
    THEN [n |-> a.n + b.n * (a.d \div b.d), d |-> a.d]
    ELSE [n |-> a.n * b.d + b.n * a.d, d |-> a.d * b.d]
\* Python's min(a, b) and max(a, b): the first argument unless the second
\* is smaller / larger.
RMin(a, b) == IF Less(b, a) THEN b ELSE a
RMax(a, b) == IF Less(a, b) THEN b ELSE a

\* num / PosDen divided by the direction component dir / DirDen.
Divide(num, dir) ==
    IF dir = 0 THEN ZeroDivision
    ELSE IF dir > 0 THEN [n |-> num * DirDen, d |-> PosDen * dir]
    ELSE [n |-> -num * DirDen, d |-> -PosDen * dir]

\* abs(1 / ray_dir) if ray_dir != 0 else float('inf')
DeltaDist(dir) ==
    IF dir # 0 THEN [n |-> Abs(Divide(PosDen, dir).n), d |-> Divide(PosDen, dir).d]
    ELSE Infinity

\* (player - map) * delta_dist or (map + 1.0 - player) * delta_dist, for
\* the offset k / PosDen.
Scaled(k, delta) == [n |-> k * delta.n, d |-> PosDen * delta.d]

StepOf(dir) == IF dir < 0 THEN -1 ELSE 1
SideDist(pos, cell, dir) ==
    IF dir < 0 THEN Scaled(pos - cell * PosDen, DeltaDist(dir))
    ELSE Scaled((cell + 1) * PosDen - pos, DeltaDist(dir))

\* The locals of cast_rays before the DDA loop of one column.
RayStart(dir) ==
    [pc |-> "dda",
     ray_dir_x |-> dir[1], ray_dir_y |-> dir[2],
     map_x |-> player.x \div PosDen, map_y |-> player.y \div PosDen,
     delta_dist_x |-> DeltaDist(dir[1]), delta_dist_y |-> DeltaDist(dir[2]),
     step_x |-> StepOf(dir[1]), step_y |-> StepOf(dir[2]),
     side_dist_x |-> SideDist(player.x, player.x \div PosDen, dir[1]),
     side_dist_y |-> SideDist(player.y, player.y \div PosDen, dir[2]),
     hit |-> FALSE, side |-> 0, wall_type |-> 0, steps |-> 0,
     perp_dist |-> MaxDepth]

\* The ray of one column is set up.
CastRay ==
    /\ ray.pc = "none"
    /\ \E dir \in Directions : ray' = RayStart(dir)
    /\ UNCHANGED <<vars_pipeline, main, pipes, tm, game_map, player>>

\* The locals after one iteration of "while not hit".
Stepped(r) ==
    IF Less(r.side_dist_x, r.side_dist_y)
    THEN [r EXCEPT !.side_dist_x = Plus(@, r.delta_dist_x),
                   !.map_x = @ + r.step_x, !.side = 0]
    ELSE [r EXCEPT !.side_dist_y = Plus(@, r.delta_dist_y),
                   !.map_y = @ + r.step_y, !.side = 1]

DdaStep ==
    /\ ray.pc = "dda"
    /\ LET r == Stepped(ray)
           w == GetCell(Grid(game_map), r.map_x, r.map_y)
       IN ray' = [r EXCEPT !.wall_type = w, !.hit = (w # 0),
                           !.steps = @ + 1,
                           !.pc = IF w # 0 THEN "perp" ELSE "dda"]
    /\ UNCHANGED <<vars_pipeline, main, pipes, tm, game_map, player>>

\* perp_dist before the clamp.
PerpOf(r) ==
    IF r.side = 0
    THEN IF r.ray_dir_x # 0
         THEN Divide(r.map_x * PosDen - player.x
                         + ((1 - r.step_x) \div 2) * PosDen, r.ray_dir_x)
         ELSE MaxDepth
    ELSE IF r.ray_dir_y # 0
         THEN Divide(r.map_y * PosDen - player.y
                         + ((1 - r.step_y) \div 2) * PosDen, r.ray_dir_y)
         ELSE MaxDepth

\* perp_dist = max(0.001, min(perp_dist, config.MAX_DEPTH))
Clamped(dist) == RMax(MinDist, RMin(dist, MaxDepth))

PerpDist ==
    /\ ray.pc = "perp"
    /\ ray' = [ray EXCEPT !.perp_dist = Clamped(PerpOf(ray)), !.pc = "done"]
    /\ UNCHANGED <<vars_pipeline, main, pipes, tm, game_map, player>>

NextRays == CastRay \/ DdaStep \/ PerpDist

InitRays ==
    /\ InitInstance("rays") /\ kind = "frame"
    /\ InitMain
    /\ game_map \in Maps
    /\ \E pos \in EmptyPositions(Grid(game_map)) :
           player = [x |-> pos[1], y |-> pos[2], angle |-> 0]
    /\ ray = NoRay

\* One ray from any position inside an empty cell of a grid.
SpecRays == InitRays /\ [][NextRays]_vars

\* C14: from every position inside an empty cell and for every direction,
\* also one with a component of exactly 0, the DDA loop ends within
\* width + height iterations at a cell whose get_cell is non-zero; the
\* axis it steps along never has a direction component of 0; no division
\* is by zero; and perp_dist ends within (0, MAX_DEPTH].
C14_DdaTerminates ==
    ray.pc # "none" =>
        /\ ray.steps <= Width(Grid(game_map)) + Height(Grid(game_map))
        /\ ray.pc # "dda" =>
               GetCell(Grid(game_map), ray.map_x, ray.map_y) # 0
        /\ ray.steps > 0 =>
               IF ray.side = 0 THEN ray.ray_dir_x # 0 ELSE ray.ray_dir_y # 0
        /\ ZeroDivision \notin {ray.delta_dist_x, ray.delta_dist_y,
                                 ray.perp_dist}
        /\ ray.pc = "perp" => PerpOf(ray) # ZeroDivision
        /\ ray.pc = "done" =>
               /\ Less([n |-> 0, d |-> 1], ray.perp_dist)
               /\ ~Less(MaxDepth, ray.perp_dist)

\* A ray along the x axis (its y component is exactly 0) that left the
\* player's cell, ended at a wall and got its distance.
C14_Witness ==
    /\ ray.pc = "done"
    /\ ray.ray_dir_y = 0
    /\ ray.steps > 1
    /\ ray.hit

\* A ray whose distance was cut to MAX_DEPTH, and one cut to the lower clamp.
RayClampedFar == ray.pc = "done" /\ ray.perp_dist = MaxDepth
RayClampedNear == ray.pc = "done" /\ ray.perp_dist = MinDist

\* ============================================================ the shading
\* The base distance shading of cast_rays, for the columns of a frame one
\* after the other; prev keeps the distance, side and shade of the column
\* before, for the comparison of two columns.
\* The floor shade 0.15 and config.EW_SHADE_FACTOR = 0.7
FloorShade == [n |-> 15, d |-> 100]
EwShadeFactor == [n |-> 7, d |-> 10]

\* Clamped distances: every half cell up to MAX_DEPTH.
Distances == {[n |-> k, d |-> PosDen] : k \in 1..(PosDen * MaxDepth.n)}

Ratio(a, b) == [n |-> a.n * b.d, d |-> a.d * b.n]
OneMinus(a) == [n |-> a.d - a.n, d |-> a.d]
Times(a, b) == [n |-> a.n * b.n, d |-> a.d * b.d]
Same(a, b) == a.n * b.d = b.n * a.d

\* The shading without the floor.
ShadeUnfloored(perp_dist, side) ==
    IF side = 1 THEN Times(OneMinus(Ratio(perp_dist, MaxDepth)), EwShadeFactor)
    ELSE OneMinus(Ratio(perp_dist, MaxDepth))

\* shade = max(0.15, 1.0 - perp_dist / config.MAX_DEPTH);
\* if side == 1: shade *= config.EW_SHADE_FACTOR
ShadeOf(perp_dist, side) ==
    IF side = 1
    THEN Times(RMax(FloorShade, OneMinus(Ratio(perp_dist, MaxDepth))),
               EwShadeFactor)
    ELSE RMax(FloorShade, OneMinus(Ratio(perp_dist, MaxDepth)))

\* A column whose ray ended at the clamped distance perp_dist on a wall of
\* orientation side (0: north/south, 1: east/west).
Column(perp_dist, side, prev) ==
    [pc |-> "shade", perp_dist |-> perp_dist, side |-> side,
     shade |-> FloorShade, prev |-> prev]

Shade ==
    /\ ray.pc = "shade"
    /\ ray' = [ray EXCEPT !.shade = ShadeOf(ray.perp_dist, ray.side),
                          !.pc = "shaded"]
    /\ UNCHANGED <<vars_pipeline, main, pipes, tm, game_map, player>>

NextColumn ==
    /\ ray.pc = "shaded"
    /\ \E perp_dist \in Distances, side \in {0, 1} :
        ray' = Column(perp_dist, side,
                      [perp_dist |-> ray.perp_dist, side |-> ray.side,
                       shade |-> ray.shade])
    /\ UNCHANGED <<vars_pipeline, main, pipes, tm, game_map, player>>

NextShade == Shade \/ NextColumn

InitShade ==
    /\ InitInstance("shade") /\ kind = "frame"
    /\ InitMain
    /\ game_map = "test"
    /\ player = PlayerStart
    /\ \E perp_dist \in Distances, side \in {0, 1} :
           ray = Column(perp_dist, side,
                        [perp_dist |-> perp_dist, side |-> side,
                         shade |-> ShadeOf(perp_dist, side)])

\* The shading of the columns of a frame, for any clamped distances.
SpecShade == InitShade /\ [][NextShade]_vars

\* Of two shaded columns of equal orientation the farther is not brighter.
ShadeMonotone ==
    ray.pc = "shaded" /\ ray.side = ray.prev.side
        /\ ~Less(ray.perp_dist, ray.prev.perp_dist)
    => ~Less(ray.prev.shade, ray.shade)

\* At equal distance the east/west shade is the north/south shade times
\* EW_SHADE_FACTOR.
ShadeEwFactor ==
    ray.pc = "shaded" /\ ray.side = 1 /\ ray.prev.side = 0
        /\ Same(ray.perp_dist, ray.prev.perp_dist)
    => Same(ray.shade, Times(ray.prev.shade, EwShadeFactor))

\* C15 as claimed: the shading factor is non-increasing in perp_dist, is
\* never below the floor shade 0.15 for any wall orientation, and the
\* east/west factor is the north/south factor times EW_SHADE_FACTOR.
C15_ShadeNeverBelowFloor ==
    /\ ShadeMonotone
    /\ ShadeEwFactor
    /\ ray.pc = "shaded" => ~Less(ray.shade, FloorShade)

\* C15, amended: the shading factor is non-increasing in perp_dist; it is
\* never below the floor shade 0.15 on a north/south wall and never below
\* 0.15 * EW_SHADE_FACTOR on an east/west wall; and the east/west factor is
\* the north/south factor times EW_SHADE_FACTOR.
C15_ShadeFloorPerOrientation ==
    /\ ShadeMonotone
    /\ ShadeEwFactor
    /\ ray.pc = "shaded" =>
           ~Less(ray.shade, IF ray.side = 1
                            THEN Times(FloorShade, EwShadeFactor)
                            ELSE FloorShade)

\* An east/west wall at MAX_DEPTH shaded after a north/south wall at the
\* same distance: the floor times the factor, below the floor.
C15_Witness ==
    /\ ray.pc = "shaded"
    /\ ray.side = 1 /\ ray.prev.side = 0
    /\ Same(ray.perp_dist, MaxDepth) /\ Same(ray.prev.perp_dist, MaxDepth)
    /\ Same(ray.shade, Times(FloorShade, EwShadeFactor))

\* ====================================================== the texture atlas
\* TextureManager: the tiles of the eight wall types packed into one atlas
\* by create_base_atlas, cut out again by split_atlas and read by sample.
\* An atlas is named by a number (BaseAtlas: the packed atlas as built;
\* Resampled: an atlas of another size after the LANCZOS resize); its
\* pixels are computed from the tiles when they are read.
TILE_SIZE == 64
ATLAS_WIDTH == 256
ATLAS_HEIGHT == 128
TilesPerRow == 4
WallTypes == 1..8
Resampled == BaseAtlas + 1

\* A tile position that does not wrap to the second row.
TilePositionOneRow(wall_type) ==
    [x |-> (wall_type - 1) * TILE_SIZE, y |-> 0]

\* _get_tile_position(wall_type)
TilePosition(wall_type) ==
    [x |-> ((wall_type - 1) % TilesPerRow) * TILE_SIZE,
     y |-> ((wall_type - 1) \div TilesPerRow) * TILE_SIZE]

\* The pixel (i, j) of the tile generated for a wall type: each one its own.
TilePixel(wall_type, i, j) == <<wall_type, i, j>>
Black == <<0, 0, 0>>

\* The atlas pixels the slice [y:y+TILE_SIZE, x:x+TILE_SIZE] of a wall
\* type's tile covers.
Covers(wall_type, px, py) ==
    /\ TilePosition(wall_type).x <= px
    /\ px < TilePosition(wall_type).x + TILE_SIZE
    /\ TilePosition(wall_type).y <= py
    /\ py < TilePosition(wall_type).y + TILE_SIZE

\* create_base_atlas: the pixel (px, py) of the packed atlas.  The tiles are
\* written in the order of the wall types onto zeros, a later tile over an
\* earlier one.
PackedPixel(px, py) ==
    LET over == {w \in WallTypes : Covers(w, px, py)}
        last == CHOOSE w \in over : \A v \in over : v <= w
    IN IF over = {} THEN Black
       ELSE TilePixel(last, px - TilePosition(last).x,
                      py - TilePosition(last).y)

\* The pixels a read of (px, py) of an atlas may give: the packed pixel, or
\* after resampling any mix of the tiles.
AtlasPixels(atlas, px, py) ==
    IF atlas = BaseAtlas THEN {PackedPixel(px, py)}
    ELSE {Black, PackedPixel(px, py)}

\* The shapes of the atlas handed to split_atlas: the atlas dimensions, or
\* another size, which is resized first.
AtlasAfterResize(exact) == IF exact THEN BaseAtlas ELSE Resampled

CreateBaseAtlas ==
    /\ tm.base_atlas = None
    /\ tm' = [tm EXCEPT !.base_atlas = BaseAtlas]
    /\ UNCHANGED <<vars_pipeline, main, pipes, caster>>

\* split_atlas(styled_atlas) of an atlas with the packed content.
SplitPacked ==
    /\ tm.base_atlas # None
    /\ \E exact \in BOOLEAN :
        tm' = [tm EXCEPT !.textures = AtlasAfterResize(exact),
                         !.sampled = NoSample]
    /\ UNCHANGED <<vars_pipeline, main, pipes, caster>>

\* sample(wall_type, u, v): the texel (tx, ty) of the wall type's texture,
\* which split_atlas cut from the atlas at the tile position.  One texel
\* is read of the textures of a split.
Sample ==
    /\ tm.textures # None
    /\ tm.sampled = NoSample
    /\ \E wall_type \in WallTypes, tx \in 0..(TILE_SIZE - 1),
          ty \in 0..(TILE_SIZE - 1) :
        \E rgb \in AtlasPixels(tm.textures,
                                TilePosition(wall_type).x + tx,
                                TilePosition(wall_type).y + ty) :
            tm' = [tm EXCEPT !.sampled =
                      [wall_type |-> wall_type, tx |-> tx, ty |-> ty,
                       rgb |-> rgb]]
    /\ UNCHANGED <<vars_pipeline, main, pipes, caster>>

NextAtlas == CreateBaseAtlas \/ SplitPacked \/ Sample

\* The texture manager alone.
SpecAtlas == InitGame /\ [][NextAtlas]_vars

\* C16: the tile of every wall type 1..8 lies inside the 256x128 atlas, the
\* eight tiles are pairwise disjoint, and a texture cut by split_atlas from
\* an atlas of the atlas dimensions holds at every texel the pixel of the
\* tile packed for that wall type.
C16_AtlasRoundTrip ==
    /\ \A w \in WallTypes :
        /\ 0 <= TilePosition(w).x
        /\ TilePosition(w).x + TILE_SIZE <= ATLAS_WIDTH
        /\ 0 <= TilePosition(w).y
        /\ TilePosition(w).y + TILE_SIZE <= ATLAS_HEIGHT
    /\ \A w, v \in WallTypes :
        w # v => ~Covers(v, TilePosition(w).x, TilePosition(w).y)
    /\ tm.textures = BaseAtlas /\ tm.sampled # NoSample =>
           tm.sampled.rgb =
               TilePixel(tm.sampled.wall_type, tm.sampled.tx, tm.sampled.ty)

\* The last texel of the last wall type's texture, read after an exact split.
C16_Witness ==
    /\ tm.textures = BaseAtlas
    /\ tm.sampled.wall_type = 8
    /\ tm.sampled.tx = TILE_SIZE - 1
    /\ tm.sampled.ty = TILE_SIZE - 1

\* ============================================================ the player
\* Player.turn_left / turn_right / move_forward / move_backward.  The angle
\* is a float.  Floats are modelled with a significand of three bits: the
\* integers below 8, and above them the multiples of the unit in the last
\* place (2 from 8, 4 from 16, 8 from 32); an arithmetic result is rounded
\* to the nearest float, ties to the even significand.  2 * math.pi is the
\* float TwoPi.
MaxFloat == 56
TwoPi == 24

Ulp(x) == IF x < 8 THEN 1 ELSE IF x < 16 THEN 2 ELSE IF x < 32 THEN 4 ELSE 8
RoundUp(x) ==
    LET u == Ulp(x)
        q == x \div u
        r == x % u
    IN IF 2 * r < u \/ (2 * r = u /\ q % 2 = 0) THEN q * u ELSE (q + 1) * u
\* The float nearest to the real x.
Round(x) == IF x < 0 THEN -RoundUp(-x) ELSE RoundUp(x)
Floats == {Round(x) : x \in (-MaxFloat)..MaxFloat}

\* math.fmod(v, w) for w > 0: the remainder with the sign of v, exact.
Fmod(v, w) == IF v < 0 THEN -((-v) % w) ELSE v % w

\* Python's v % w on floats, w > 0: fmod, and a negative remainder has w
\* added to it, a float addition that rounds.
FloatMod(v, w) ==
    IF Fmod(v, w) < 0 THEN Round(Fmod(v, w) + w) ELSE Fmod(v, w)

TurnLeft ==
    /\ \E amount \in Floats :
        player' = [player EXCEPT
                      !.angle = FloatMod(Round(@ - amount), TwoPi)]
    /\ UNCHANGED <<vars_pipeline, main, pipes, tm, game_map, ray>>

TurnRight ==
    /\ \E amount \in Floats :
        player' = [player EXCEPT
                      !.angle = FloatMod(Round(@ + amount), TwoPi)]
    /\ UNCHANGED <<vars_pipeline, main, pipes, tm, game_map, ray>>

\* Map.is_wall(x, y) for a position in units of 1 / PosDen; int() cuts
\* towards zero.
Cell(c) == IF c < 0 THEN -((-c) \div PosDen) ELSE c \div PosDen
IsWall(x, y) == GetCell(Grid(game_map), Cell(x), Cell(y)) # 0

\* The cell of c + margin and of c - margin for margin = 0.2, which is less
\* than the position unit: c + 0.2 stays in the cell of c, c - 0.2 lies in
\* the cell of the position before c, and of c itself when that is 0.
CellAbove(c) == c
CellBelow(c) == IF c = 0 THEN c ELSE c - 1
Clear(x, y) ==
    /\ ~IsWall(x, y)
    /\ ~IsWall(CellAbove(x), CellAbove(y))
    /\ ~IsWall(CellAbove(x), CellBelow(y))
    /\ ~IsWall(CellBelow(x), CellAbove(y))
    /\ ~IsWall(CellBelow(x), CellBelow(y))

\* _try_move(new_x, new_y, game_map): x first, then y from the new x.
TryMove(p, new_x, new_y) ==
    LET moved_x == IF Clear(new_x, p.y) THEN new_x ELSE p.x
    IN [p EXCEPT !.x = moved_x,
                 !.y = IF Clear(moved_x, new_y) THEN new_y ELSE @]

\* The positions x +- cos(angle) * distance, y +- sin(angle) * distance for
\* the distances of up to one cell: the positions around the player.
Targets ==
    ((player.x - PosDen)..(player.x + PosDen))
        \X ((player.y - PosDen)..(player.y + PosDen))

MoveForward ==
    /\ \E t \in Targets : player' = TryMove(player, t[1], t[2])
    /\ UNCHANGED <<vars_pipeline, main, pipes, tm, game_map, ray>>

MoveBackward ==
    /\ \E t \in Targets : player' = TryMove(player, t[1], t[2])
    /\ UNCHANGED <<vars_pipeline, main, pipes, tm, game_map, ray>>

NextPlayer == TurnLeft \/ TurnRight \/ MoveForward \/ MoveBackward

InitPlayer ==
    /\ InitInstance("player") /\ kind = "frame"
    /\ InitMain
    /\ game_map = "test"
    /\ \E angle \in {a \in Floats : 0 <= a /\ a < TwoPi} :
           player = [PlayerStart EXCEPT !.angle = angle]
    /\ ray = NoRay

\* The player alone, from any angle in [0, 2 pi).
SpecPlayer == InitPlayer /\ [][NextPlayer]_vars

\* C17: after any sequence of turns and moves with any amounts the angle
\* is within [0, 2 pi).
C17_AngleNormalized == 0 <= player.angle /\ player.angle < TwoPi

\* =============================================== the atlas and the threads
\* A step of a worker thread of main's pipelines: the position of a
\* launched worker or the submission it holds changes.
WorkerMoved ==
    \E k \in Kinds :
        /\ pipes[k].worker # "none"
        /\ \/ pipes'[k].worker # pipes[k].worker
           \/ pipes'[k].frame # pipes[k].frame

\* C18: base_atlas and textures change in no step of a worker thread:
\* base_atlas only in the texture update's create_base_atlas, textures only
\* in its split_atlas, to the result get_result has just taken from the
\* texture pipeline's output slot; and a worker's step touches nothing of
\* the render thread but the two queues of its pipeline.
C18_AtlasOnRenderThread ==
    [][/\ tm' # tm =>
           /\ ~WorkerMoved
           /\ main.pc \in {"texture", "texture_result"}
           /\ main'.pc # main.pc
       /\ tm'.base_atlas # tm.base_atlas =>
           main.pc = "texture" /\ tm'.base_atlas = BaseAtlas
       /\ tm'.textures # tm.textures =>
           /\ main.pc = "texture_result"
           /\ pipes["texture"].output_queue = <<tm'.textures>>
           /\ pipes'["texture"].output_queue = <<>>
       /\ WorkerMoved =>
           /\ UNCHANGED <<main, tm>>
           /\ \A k \in Kinds : pipes'[k].last_output = pipes[k].last_output
      ]_vars

\* The textures were cut from a second styled atlas, after a first one.
C18_Witness ==
    /\ main.pc = "sd"
    /\ tm.base_atlas = BaseAtlas
    /\ tm.textures # None
    /\ tm.textures > 1

\* ================================================ installing the results
\* C19: a worker that has evicted the unread result finds the output slot
\* free, so that its put completes without blocking, under every
\* interleaving with get_result; and the output slot never holds more than
\* one result.
C19_PutNeverBlocks ==
    /\ Len(output_queue) <= QueueMaxSize
    /\ \A w \in Workers : wpc[w] = "put" => ~Full(output_queue)

\* C20: the results get_result takes from the output slot have strictly
\* increasing submission numbers.
C20_ResultsInSubmissionOrder ==
    [][fetched' # fetched => fetched' > fetched]_vars

\* ======================================== the two pipelines of the game loop
\* C22: in every state of the game loop, mode switches included, at most
\* one of the two workers is inside the transformation, which both run on
\* the one module-level pipeline handle.
C22_OneWorkerInTransformation ==
    ~(pipes["frame"].worker = "stylize" /\ pipes["texture"].worker = "stylize")

\* C23: a mode that is on has a running worker behind it: sd_enabled only
\* with the AsyncStylizer worker launched, texture_mode only with the
\* AsyncTextureStylizer worker launched, also after a start() that failed.
C23_ModeHasRunningWorker ==
    /\ main.sd_enabled => pipes["frame"].worker # "none"
    /\ main.texture_mode => pipes["texture"].worker # "none"

\* ============================================ the freshest submission
\* A transformation that always terminates successfully: a worker leaves
\* stylize_frame only with a result.
Succeeds ==
    \A w \in Workers :
        wpc[w] = "stylize" /\ wpc'[w] # "stylize" => wpc'[w] = "evict"

NextFresh == Next /\ Succeeds

\* The worker threads are scheduled fairly, and the render thread goes on
\* calling get_result, as the game loop does in every frame.
Fairness ==
    /\ \A w \in Workers : WF_vars(WorkerStep(w) /\ Succeeds)
    /\ WF_vars(GetResult)

\* The pipeline with fair workers and transformations that succeed,
\* recording the results installed and fetched.
SpecFresh == InitWatching("results") /\ [][NextFresh]_vars /\ Fairness

\* submit n has returned and its submission is pending on a running
\* instance: the submission was installed after the last stop(), whose
\* get_nowait would have removed it.
SubmissionMade(n) ==
    /\ submits = n
    /\ rpc = "idle"
    /\ running
    /\ Slot(input_queue) = n

\* C21: a submission made on a running instance and followed by no further
\* submit and no stop() is eventually taken and transformed, and its result
\* is eventually the one get_result takes from the output slot.
C21_FreshestProcessed ==
    \A n \in 1..MaxSubmits :
        [](SubmissionMade(n) /\ [](submits = n /\ running)
               => <>(fetched = n))
====
